---- MODULE Spec2Model ----
(***************************************************************************)
(* Governance layer of lakebase-mcp: the SQL statement governor            *)
(* (server/governance/sql_guard.py), the tool access policy                *)
(* (server/governance/tool_guard.py) and the policy composer               *)
(* (server/governance/policy.py).                                          *)
(*                                                                         *)
(* SQL text is a sequence of tokens.  Keywords are written in upper case   *)
(* (the code upper-cases the text before it matches a pattern), " " is      *)
(* white space, ";" the statement separator, "x" any identifier or          *)
(* literal, "(" an opening parenthesis that is never closed and "'" an      *)
(* opening quote that is never closed.                                      *)
(***************************************************************************)
EXTENDS Integers, Sequences, FiniteSets, TLC

VARIABLES
    config,       \* the GovernanceConfig the policy is built from
    governor,     \* SQLGovernor._allowed of the policy's governor, None before it exists
    tool_policy,  \* the ToolAccessPolicy: allowed_tools and denied_tools
    args,         \* the arguments resolve_tool_policy was last called with
    call,         \* the last call made: operation, argument, result
    settings,     \* server.config.config: retry and row-cap settings
    pool,         \* LakebasePool: which pools exist, connections checked out of each
    conn,         \* one use of LakebasePool.connection: position and locals
    server        \* main.py: whether call_tool has been wrapped

vars == <<config, governor, tool_policy, args, call, settings, pool, conn, server>>

(***************************************************************************)
(* Optional values: None, or a one-element tuple holding the value.        *)
(***************************************************************************)
None == <<>>

Some(v) == <<v>>

\* Python truthiness of an Optional[str]
TruthyStr(o) == o # None /\ o[1] # ""

\* Python truthiness of an Optional[list]
TruthyList(o) == o # None /\ Len(o[1]) > 0

\* the elements of a sequence
Range(s) == {s[i] : i \in 1..Len(s)}

(***************************************************************************)
(* sql_guard.py: statement types and profiles                              *)
(***************************************************************************)
SQLStatementType ==
    {"select", "insert", "update", "delete", "create", "drop", "alter",
     "merge", "truncate", "grant", "revoke", "use", "show", "describe",
     "explain", "set", "call"}

\* PROFILES with "show" dropped from the analyst set (for comparison)
PROFILES_AnalystWithoutShow ==
    [p \in {"read_only", "analyst", "developer", "admin"} |->
        CASE p = "read_only" -> {"select", "show", "describe", "explain"}
          [] p = "analyst" -> {"select", "describe", "explain", "insert", "set"}
          [] p = "developer" ->
                {"select", "insert", "update", "delete", "create", "alter",
                 "show", "describe", "explain", "set", "call"}
          [] p = "admin" -> SQLStatementType]

PROFILES ==
    [p \in {"read_only", "analyst", "developer", "admin"} |->
        CASE p = "read_only" -> {"select", "show", "describe", "explain"}
          [] p = "analyst" ->
                {"select", "show", "describe", "explain", "insert", "set"}
          [] p = "developer" ->
                {"select", "insert", "update", "delete", "create", "alter",
                 "show", "describe", "explain", "set", "call"}
          [] p = "admin" -> SQLStatementType]

\* node kind of the parser -> statement type (the isinstance table)
EXPRESSION_MAP ==
    [k \in {"Select", "Union", "Intersect", "Except", "Insert", "Update",
            "Delete", "Create", "Drop", "Alter", "AlterColumn", "Merge",
            "TruncateTable", "Grant"} |->
        CASE k \in {"Select", "Union", "Intersect", "Except"} -> "select"
          [] k = "Insert" -> "insert"
          [] k = "Update" -> "update"
          [] k = "Delete" -> "delete"
          [] k = "Create" -> "create"
          [] k = "Drop" -> "drop"
          [] k \in {"Alter", "AlterColumn"} -> "alter"
          [] k = "Merge" -> "merge"
          [] k = "TruncateTable" -> "truncate"
          [] k = "Grant" -> "grant"]

\* the command names _classify_expression knows for exp.Command nodes
CMD_MAP ==
    [c \in {"EXPLAIN", "REVOKE", "SHOW", "SET", "CALL"} |->
        CASE c = "EXPLAIN" -> "explain"
          [] c = "REVOKE" -> "revoke"
          [] c = "SHOW" -> "show"
          [] c = "SET" -> "set"
          [] c = "CALL" -> "call"]

(***************************************************************************)
(* Token sequences                                                         *)
(***************************************************************************)
\* str.strip(): leading and trailing white space removed
RECURSIVE LStrip(_)
LStrip(s) == IF s # <<>> /\ Head(s) = " " THEN LStrip(Tail(s)) ELSE s

RECURSIVE RStrip(_)
RStrip(s) ==
    IF s # <<>> /\ s[Len(s)] = " " THEN RStrip(SubSeq(s, 1, Len(s) - 1)) ELSE s

Strip(s) == RStrip(LStrip(s))

\* the statements of a text: the token runs between separators
RECURSIVE SplitStatements(_)
SplitStatements(s) ==
    IF \A i \in 1..Len(s) : s[i] # ";"
    THEN <<s>>
    ELSE LET k == CHOOSE i \in 1..Len(s) :
                      s[i] = ";" /\ \A j \in 1..(i - 1) : s[j] # ";"
         IN <<SubSeq(s, 1, k - 1)>> \o SplitStatements(SubSeq(s, k + 1, Len(s)))

\* a statement with its white space removed
Words(s) == SelectSeq(s, LAMBDA t : t # " ")

(***************************************************************************)
(* sqlglot.parse(sql, dialect="postgres") as classify uses it.  The        *)
(* tokenizer fails on an unterminated quote (TokenError, which is not a     *)
(* ParseError); the parser fails on an unbalanced parenthesis and on a      *)
(* WITH clause that no SELECT/INSERT/UPDATE/DELETE follows (ParseError).    *)
(* Otherwise each statement yields one node, None for an empty statement.   *)
(***************************************************************************)
\* the node a statement led by keyword k parses to
KeywordNode(k) ==
    CASE k = "SELECT" -> [kind |-> "Select", this |-> ""]
      [] k = "INSERT" -> [kind |-> "Insert", this |-> ""]
      [] k = "UPDATE" -> [kind |-> "Update", this |-> ""]
      [] k = "DELETE" -> [kind |-> "Delete", this |-> ""]
      [] k = "CREATE" -> [kind |-> "Create", this |-> ""]
      [] k = "DROP" -> [kind |-> "Drop", this |-> ""]
      [] k = "ALTER" -> [kind |-> "Alter", this |-> ""]
      [] k = "MERGE" -> [kind |-> "Merge", this |-> ""]
      [] k = "TRUNCATE" -> [kind |-> "TruncateTable", this |-> ""]
      [] k = "GRANT" -> [kind |-> "Grant", this |-> ""]
      [] k = "SET" -> [kind |-> "Set", this |-> ""]
      [] k = "DESCRIBE" -> [kind |-> "Describe", this |-> ""]
      [] k = "USE" -> [kind |-> "Use", this |-> ""]
      [] k = "REVOKE" -> [kind |-> "Revoke", this |-> ""]
      [] k \in {"EXPLAIN", "SHOW", "CALL", "VACUUM"} ->
            [kind |-> "Command", this |-> k]
      [] OTHER -> [kind |-> "Column", this |-> ""]

CteOuter == {"SELECT", "INSERT", "UPDATE", "DELETE"}

\* a WITH statement parses when a query follows the CTE body
CteParses(w) == Len(w) >= 3 /\ w[Len(w)] \in CteOuter

StatementFails(w) ==
    \/ \E i \in 1..Len(w) : w[i] = "("
    \/ w # <<>> /\ w[1] = "WITH" /\ ~CteParses(w)

\* the node of one statement; sql is what stmt.sql() generates from it
ParseStatement(w) ==
    IF w = <<>> THEN [kind |-> "None", this |-> "", sql |-> <<>>]
    ELSE LET lead == IF w[1] = "WITH" THEN w[Len(w)] ELSE w[1]
             n == KeywordNode(lead)
         IN [kind |-> n.kind, this |-> n.this, sql |-> w]

sqlglot_parse(sql) ==
    LET stmts == SplitStatements(sql)
        words == [i \in 1..Len(stmts) |-> Words(stmts[i])]
    IN IF \E i \in 1..Len(sql) : sql[i] = "'"
       THEN [error |-> "TokenError", statements |-> <<>>]
       ELSE IF \E i \in 1..Len(words) : StatementFails(words[i])
       THEN [error |-> "ParseError", statements |-> <<>>]
       ELSE [error |-> "none",
             statements |-> [i \in 1..Len(words) |-> ParseStatement(words[i])]]

(***************************************************************************)
(* SQLGovernor                                                             *)
(***************************************************************************)
\* _classify_expression: the statement type of a node, or None
classify_expression(node) ==
    IF node.kind \in DOMAIN EXPRESSION_MAP THEN Some(EXPRESSION_MAP[node.kind])
    ELSE IF node.kind = "Command"
    THEN IF node.this \in DOMAIN CMD_MAP THEN Some(CMD_MAP[node.this]) ELSE None
    ELSE IF node.kind \in {"SetItem", "Set"} THEN Some("set")
    ELSE IF node.kind = "Describe" THEN Some("describe")
    ELSE IF node.kind = "Use" THEN Some("use")
    ELSE None

\* the ordered pattern list of _regex_fallback: ^head\b, or ^head\b.*\btail\b
REGEX_PATTERNS ==
    << [head |-> "SELECT", tail |-> "", type |-> "select"],
       [head |-> "INSERT", tail |-> "", type |-> "insert"],
       [head |-> "UPDATE", tail |-> "", type |-> "update"],
       [head |-> "DELETE", tail |-> "", type |-> "delete"],
       [head |-> "CREATE", tail |-> "", type |-> "create"],
       [head |-> "DROP", tail |-> "", type |-> "drop"],
       [head |-> "ALTER", tail |-> "", type |-> "alter"],
       [head |-> "MERGE", tail |-> "", type |-> "merge"],
       [head |-> "TRUNCATE", tail |-> "", type |-> "truncate"],
       [head |-> "GRANT", tail |-> "", type |-> "grant"],
       [head |-> "REVOKE", tail |-> "", type |-> "revoke"],
       [head |-> "EXPLAIN", tail |-> "", type |-> "explain"],
       [head |-> "SHOW", tail |-> "", type |-> "show"],
       [head |-> "DESCRIBE", tail |-> "", type |-> "describe"],
       [head |-> "SET", tail |-> "", type |-> "set"],
       [head |-> "CALL", tail |-> "", type |-> "call"],
       [head |-> "USE", tail |-> "", type |-> "use"],
       [head |-> "WITH", tail |-> "SELECT", type |-> "select"],
       [head |-> "WITH", tail |-> "INSERT", type |-> "insert"],
       [head |-> "WITH", tail |-> "UPDATE", type |-> "update"],
       [head |-> "WITH", tail |-> "DELETE", type |-> "delete"] >>

\* re.match(pattern, stripped, re.DOTALL)
RegexMatch(p, stripped) ==
    /\ stripped # <<>>
    /\ stripped[1] = p.head
    /\ p.tail # "" => \E i \in 2..Len(stripped) : stripped[i] = p.tail

\* _regex_fallback: the type of the first pattern that matches, or None
regex_fallback(sql) ==
    LET stripped == Strip(sql)
        hits == {i \in 1..Len(REGEX_PATTERNS) : RegexMatch(REGEX_PATTERNS[i], stripped)}
    IN IF hits = {} THEN None
       ELSE Some(REGEX_PATTERNS[CHOOSE i \in hits : \A j \in hits : i <= j].type)

\* the types one parsed statement contributes to classify's list
RECURSIVE ClassifyStatements(_)
ClassifyStatements(stmts) ==
    IF stmts = <<>> THEN <<>>
    ELSE LET stmt == Head(stmts)
             stmt_type == classify_expression(stmt)
         IN (IF stmt.kind = "None" THEN <<>>
             ELSE IF stmt_type # None THEN stmt_type
             ELSE regex_fallback(stmt.sql))
            \o ClassifyStatements(Tail(stmts))

\* SQLGovernor.classify: the list of types, or the exception that escapes
classify(sql) ==
    LET parsed == sqlglot_parse(sql)
    IN CASE parsed.error = "none" ->
                [raised |-> "", types |-> ClassifyStatements(parsed.statements)]
         [] parsed.error = "ParseError" ->
                [raised |-> "", types |-> regex_fallback(sql)]
         [] OTHER -> [raised |-> parsed.error, types |-> <<>>]

\* type names in alphabetical order: the order sorted() gives their values
ALPHABETICAL ==
    <<"alter", "call", "create", "delete", "describe", "drop", "explain",
      "grant", "insert", "merge", "revoke", "select", "set", "show",
      "truncate", "update", "use">>

\* sorted(t.value for t in allowed)
Sorted(allowed) == SelectSeq(ALPHABETICAL, LAMBDA t : t \in allowed)

CouldNotDetermine ==
    [text |-> "Could not determine SQL statement type.", type |-> None,
     permitted |-> <<>>]

NotAllowed(stmt_type, allowed_list) ==
    [text |-> "Statement type is not allowed. Permitted types:",
     type |-> Some(stmt_type), permitted |-> allowed_list]

\* check with the scan reporting the last disallowed type instead of the first
CheckTypesLastViolation(allowed, types) ==
    IF types = <<>>
    THEN [raised |-> "", allowed |-> FALSE, statement_type |-> None,
          error_message |-> Some(CouldNotDetermine), parsed_types |-> <<>>]
    ELSE IF \E i \in 1..Len(types) : types[i] \notin allowed
    THEN LET k == CHOOSE i \in 1..Len(types) :
                      /\ types[i] \notin allowed
                      /\ \A j \in (i + 1)..Len(types) : types[j] \in allowed
         IN [raised |-> "", allowed |-> FALSE, statement_type |-> Some(types[k]),
             error_message |-> Some(NotAllowed(types[k], Sorted(allowed))),
             parsed_types |-> types]
    ELSE [raised |-> "", allowed |-> TRUE, statement_type |-> Some(types[1]),
          error_message |-> None, parsed_types |-> types]

\* check without the guard for an empty classification: the scan finds nothing
CheckTypesNoEmptyGuard(allowed, types) ==
    IF \E i \in 1..Len(types) : types[i] \notin allowed
    THEN LET k == CHOOSE i \in 1..Len(types) :
                      /\ types[i] \notin allowed
                      /\ \A j \in 1..(i - 1) : types[j] \in allowed
         IN [raised |-> "", allowed |-> FALSE, statement_type |-> Some(types[k]),
             error_message |-> Some(NotAllowed(types[k], Sorted(allowed))),
             parsed_types |-> types]
    ELSE [raised |-> "", allowed |-> TRUE,
          statement_type |-> IF types = <<>> THEN None ELSE Some(types[1]),
          error_message |-> None, parsed_types |-> types]

\* the SQLCheckResult for an already classified text (check, lines 153-176)
CheckTypes(allowed, types) ==
    IF types = <<>>
    THEN [raised |-> "", allowed |-> FALSE, statement_type |-> None,
          error_message |-> Some(CouldNotDetermine), parsed_types |-> <<>>]
    ELSE IF \E i \in 1..Len(types) : types[i] \notin allowed
    THEN LET k == CHOOSE i \in 1..Len(types) :
                      /\ types[i] \notin allowed
                      /\ \A j \in 1..(i - 1) : types[j] \in allowed
         IN [raised |-> "", allowed |-> FALSE, statement_type |-> Some(types[k]),
             error_message |-> Some(NotAllowed(types[k], Sorted(allowed))),
             parsed_types |-> types]
    ELSE [raised |-> "", allowed |-> TRUE, statement_type |-> Some(types[1]),
          error_message |-> None, parsed_types |-> types]

\* SQLGovernor.check
check(allowed, sql) ==
    LET c == classify(sql)
    IN IF c.raised # ""
       THEN [raised |-> c.raised, allowed |-> FALSE, statement_type |-> None,
             error_message |-> None, parsed_types |-> <<>>]
       ELSE CheckTypes(allowed, c.types)

READ_TYPES == {"select", "show", "describe", "explain", "set"}

\* SQLGovernor.is_write
is_write(sql) ==
    LET c == classify(sql)
    IN [raised |-> c.raised,
        value |-> c.raised = "" /\ \E i \in 1..Len(c.types) : c.types[i] \notin READ_TYPES]

(***************************************************************************)
(* tool_guard.py                                                           *)
(***************************************************************************)
TOOL_CATEGORIES ==
    [c \in {"sql_query", "schema_read", "project_read", "branch_read",
            "branch_write", "compute_read", "compute_write", "migration",
            "sync_read", "sync_write", "quality", "feature_read", "insight"} |->
        CASE c = "sql_query" ->
                <<"lakebase_execute_query", "lakebase_read_query",
                  "lakebase_explain_query">>
          [] c = "schema_read" ->
                <<"lakebase_list_schemas", "lakebase_list_tables",
                  "lakebase_describe_table", "lakebase_object_tree">>
          [] c = "project_read" ->
                <<"lakebase_list_projects", "lakebase_describe_project",
                  "lakebase_get_connection_string">>
          [] c = "branch_read" -> <<"lakebase_list_branches">>
          [] c = "branch_write" ->
                <<"lakebase_create_branch", "lakebase_delete_branch">>
          [] c = "compute_read" ->
                <<"lakebase_get_compute_status", "lakebase_get_compute_metrics">>
          [] c = "compute_write" ->
                <<"lakebase_configure_autoscaling",
                  "lakebase_configure_scale_to_zero", "lakebase_restart_compute",
                  "lakebase_create_read_replica">>
          [] c = "migration" ->
                <<"lakebase_prepare_migration", "lakebase_complete_migration">>
          [] c = "sync_read" -> <<"lakebase_list_syncs">>
          [] c = "sync_write" -> <<"lakebase_create_sync">>
          [] c = "quality" -> <<"lakebase_profile_table">>
          [] c = "feature_read" ->
                <<"lakebase_lookup_features", "lakebase_list_feature_tables">>
          [] c = "insight" -> <<"lakebase_append_insight">>]

READ_CATEGORIES ==
    <<"sql_query", "schema_read", "project_read", "branch_read",
      "compute_read", "sync_read", "quality", "feature_read", "insight">>

TOOL_PROFILES ==
    [p \in {"read_only", "analyst", "developer", "admin"} |->
        CASE p \in {"read_only", "analyst"} -> READ_CATEGORIES
          [] p = "developer" ->
                <<"sql_query", "schema_read", "project_read", "branch_read",
                  "branch_write", "compute_read", "compute_write", "migration",
                  "sync_read", "sync_write", "quality", "feature_read",
                  "insight">>
          [] p = "admin" ->
                <<"sql_query", "schema_read", "project_read", "branch_read",
                  "branch_write", "compute_read", "compute_write", "migration",
                  "sync_read", "sync_write", "quality", "feature_read",
                  "insight">>]

\* ToolAccessPolicy(): both sets empty
ToolAccessPolicy == [allowed_tools |-> {}, denied_tools |-> {}]

\* is_tool_allowed with the allow list consulted before the deny list
is_tool_allowed_allow_first(p, tool_name) ==
    IF p.allowed_tools # {} /\ tool_name \in p.allowed_tools THEN TRUE
    ELSE IF p.denied_tools # {} /\ tool_name \in p.denied_tools THEN FALSE
    ELSE p.allowed_tools = {}

\* ToolAccessPolicy.is_tool_allowed
is_tool_allowed(p, tool_name) ==
    IF p.denied_tools # {} /\ tool_name \in p.denied_tools THEN FALSE
    ELSE IF p.allowed_tools # {} /\ tool_name \notin p.allowed_tools THEN FALSE
    ELSE TRUE

\* the tools a loop "for cat in cats: if cat in TOOL_CATEGORIES: update" adds
CategoryTools(cats) ==
    UNION {Range(TOOL_CATEGORIES[c]) : c \in Range(cats) \cap DOMAIN TOOL_CATEGORIES}

\* a step 1 that takes an unknown profile name for read_only (for comparison)
ProfileToolsUnknownReadOnly(profile) ==
    IF TruthyStr(profile)
    THEN CategoryTools(TOOL_PROFILES[IF profile[1] \in DOMAIN TOOL_PROFILES
                                     THEN profile[1] ELSE "read_only"])
    ELSE {}

\* step 1 of resolve_tool_policy: the profile's tools
ProfileTools(profile) ==
    IF TruthyStr(profile) /\ profile[1] \in DOMAIN TOOL_PROFILES
    THEN CategoryTools(TOOL_PROFILES[profile[1]])
    ELSE {}

\* the elements an "if lst: target.update(lst)" adds
ListItems(lst) == IF TruthyList(lst) THEN Range(lst[1]) ELSE {}

\* the tools an "if cats: for cat in cats" loop adds
ListCategoryTools(cats) == IF TruthyList(cats) THEN CategoryTools(cats[1]) ELSE {}

\* what is denied after steps 2 and 3 of resolve_tool_policy
ResolveDenied(denied_categories, denied_tools) ==
    ListCategoryTools(denied_categories) \cup ListItems(denied_tools)

\* resolve_tool_policy with allowed_categories replacing the profile's tools
ResolveAllowedOverride(profile, allowed_categories, allowed_tools) ==
    (IF TruthyList(allowed_categories)
     THEN ListCategoryTools(allowed_categories)
     ELSE ProfileTools(profile))
        \cup ListItems(allowed_tools)

\* what is allowed after steps 1 to 3 of resolve_tool_policy
ResolveAllowed(profile, allowed_categories, allowed_tools) ==
    ProfileTools(profile) \cup ListCategoryTools(allowed_categories)
        \cup ListItems(allowed_tools)

resolve_tool_policy(a) ==
    [allowed_tools |->
        ResolveAllowed(a.profile, a.allowed_categories, a.allowed_tools),
     denied_tools |-> ResolveDenied(a.denied_categories, a.denied_tools)]

(***************************************************************************)
(* policy.py                                                               *)
(***************************************************************************)
\* GovernanceConfig(): every field at its default
GovernanceConfig ==
    [sql_profile |-> None, sql_allowed_types |-> None, sql_denied_types |-> None,
     tool_profile |-> None, tool_allowed_categories |-> None,
     tool_denied_categories |-> None, tool_allowed_tools |-> None,
     tool_denied_tools |-> None, allow_write |-> FALSE]

\* the upper-case spelling of each type name, in the order of ALPHABETICAL
UPPERCASE ==
    <<"ALTER", "CALL", "CREATE", "DELETE", "DESCRIBE", "DROP", "EXPLAIN",
      "GRANT", "INSERT", "MERGE", "REVOKE", "SELECT", "SET", "SHOW",
      "TRUNCATE", "UPDATE", "USE">>

\* str.lower() on the names a configuration holds
Lower(t) ==
    IF \E i \in 1..Len(UPPERCASE) : UPPERCASE[i] = t
    THEN ALPHABETICAL[CHOOSE i \in 1..Len(UPPERCASE) : UPPERCASE[i] = t]
    ELSE t

\* the types "for t in lst: try SQLStatementType(t.lower()) except ValueError" yields
NamedTypes(lst) ==
    IF TruthyList(lst)
    THEN {Lower(t) : t \in Range(lst[1])} \cap SQLStatementType
    ELSE {}

\* has_governance looking at the SQL fields only
has_governance_sql_only(c) ==
    \/ TruthyStr(c.sql_profile)
    \/ TruthyList(c.sql_allowed_types)
    \/ TruthyList(c.sql_denied_types)

\* has_governance: any of the eight fields is truthy
has_governance(c) ==
    \/ TruthyStr(c.sql_profile)
    \/ TruthyList(c.sql_allowed_types)
    \/ TruthyList(c.sql_denied_types)
    \/ TruthyStr(c.tool_profile)
    \/ TruthyList(c.tool_allowed_categories)
    \/ TruthyList(c.tool_denied_categories)
    \/ TruthyList(c.tool_allowed_tools)
    \/ TruthyList(c.tool_denied_tools)

\* legacy mode with the write flag selecting the developer profile
LegacySqlAllowedDeveloper(c) ==
    IF c.allow_write THEN PROFILES["developer"] ELSE PROFILES["read_only"]

\* legacy mode: the write flag picks all types or read_only
LegacySqlAllowed(c) ==
    IF c.allow_write THEN SQLStatementType ELSE PROFILES["read_only"]

\* new mode, lines 197-199: the profile's set, or empty
ProfileSqlAllowed(c) ==
    IF TruthyStr(c.sql_profile) /\ c.sql_profile[1] \in DOMAIN PROFILES
    THEN PROFILES[c.sql_profile[1]]
    ELSE {}

\* new mode with the subtractive list applied before the additive list
ResolveSqlAllowedDenyFirst(c) ==
    LET resolved == (ProfileSqlAllowed(c) \ NamedTypes(c.sql_denied_types))
                        \cup NamedTypes(c.sql_allowed_types)
    IN IF resolved = {} THEN PROFILES["read_only"] ELSE resolved

\* new mode, lines 197-217
ResolveSqlAllowed(c) ==
    LET resolved == (ProfileSqlAllowed(c) \cup NamedTypes(c.sql_allowed_types))
                        \ NamedTypes(c.sql_denied_types)
    IN IF resolved = {} THEN PROFILES["read_only"] ELSE resolved

\* the arguments build_governance_policy passes to resolve_tool_policy
ToolArgs(c) ==
    [profile |-> c.tool_profile,
     allowed_categories |-> c.tool_allowed_categories,
     denied_categories |-> c.tool_denied_categories,
     allowed_tools |-> c.tool_allowed_tools,
     denied_tools |-> c.tool_denied_tools]

build_governance_policy(c) ==
    IF ~has_governance(c)
    THEN [sql_allowed |-> LegacySqlAllowed(c), tool_policy |-> ToolAccessPolicy]
    ELSE [sql_allowed |-> ResolveSqlAllowed(c),
          tool_policy |-> resolve_tool_policy(ToolArgs(c))]

ToolDenied(tool_name) ==
    [text |-> "Tool is not permitted by the current governance policy.",
     tool |-> tool_name]

\* GovernancePolicy.check_tool_access: the (allowed, error_msg) pair
check_tool_access(p, tool_name) ==
    IF is_tool_allowed(p, tool_name)
    THEN [raised |-> "", allowed |-> TRUE, message |-> None]
    ELSE [raised |-> "", allowed |-> FALSE, message |-> Some(ToolDenied(tool_name))]

\* GovernancePolicy.check_sql: the (allowed, error_msg) pair
check_sql(allowed, sql) ==
    LET result == check(allowed, sql)
    IN IF result.raised # ""
       THEN [raised |-> result.raised, allowed |-> FALSE, message |-> None]
       ELSE IF result.allowed
       THEN [raised |-> "", allowed |-> TRUE, message |-> None]
       ELSE [raised |-> "", allowed |-> FALSE, message |-> result.error_message]

(***************************************************************************)
(* db.py: LakebasePool.  Delays are in milliseconds.  A result set is the  *)
(* sequence of its row numbers.                                            *)
(***************************************************************************)
\* an except clause that catches database errors of every kind (for comparison)
TRANSIENT_WithProgrammingError ==
    {"OperationalError", "ConnectionException", "ConnectionRefusedError",
     "OSError", "ProgrammingError"}

\* an except clause that catches the cancellation too (for comparison)
TRANSIENT_WithCancelled ==
    {"OperationalError", "ConnectionException", "ConnectionRefusedError",
     "OSError", "CancelledError"}

\* the exception classes the retry loop of connection() catches
TRANSIENT ==
    {"OperationalError", "ConnectionException", "ConnectionRefusedError",
     "OSError"}

Min(a, b) == IF a <= b THEN a ELSE b

RECURSIVE Pow2(_)
Pow2(n) == IF n = 0 THEN 1 ELSE 2 * Pow2(n - 1)

\* the delay without the cap (for comparison)
BackoffDelayUncapped(s, attempt) ==
    s.scale_to_zero_retry_base_delay * Pow2(attempt)

\* delay = min(base_delay * 2**attempt, max_delay)
BackoffDelay(s, attempt) ==
    Min(s.scale_to_zero_retry_base_delay * Pow2(attempt),
        s.scale_to_zero_max_delay)

\* a target that ignores the replica (for comparison)
TargetPoolPrimaryOnly(p, prefer_replica) ==
    IF p.primary THEN Some("primary") ELSE None

\* the pool connection() checks out of, None when it is not initialized
TargetPool(p, prefer_replica) ==
    IF prefer_replica /\ p.replica
    THEN Some("replica")
    ELSE IF p.primary THEN Some("primary") ELSE None

\* effective_max = max_rows or config.max_rows
EffectiveMax(s, max_rows) ==
    IF max_rows # None /\ max_rows[1] # 0 THEN max_rows[1] ELSE s.max_rows

\* cur.fetchmany(size) on a result set not read yet
FetchMany(rows, size) == SubSeq(rows, 1, Min(Len(rows), size))

\* what execute_query returns for a statement whose cursor has the result
\* set result (None: the statement returns no rows)
ExecuteQueryRows(s, max_rows, result) ==
    IF result # None
    THEN FetchMany(result[1], EffectiveMax(s, max_rows))
    ELSE <<"affected_rows">>

\* what execute_readonly returns
ExecuteReadonlyRows(s, max_rows, result) ==
    IF result # None
    THEN FetchMany(result[1], EffectiveMax(s, max_rows))
    ELSE <<>>

\* LakebasePool(): no pool opened, nothing checked out
LakebasePool ==
    [primary |-> FALSE, replica |-> FALSE,
     out |-> [primary |-> 0, replica |-> 0]]

\* target_pool.connection().__aenter__: one more connection checked out
Checkout(p, target) == [p EXCEPT !.out[target] = @ + 1]

\* target_pool.connection().__aexit__: the connection goes back to its pool
Release(p, target) == [p EXCEPT !.out[target] = @ - 1]

\* no use of connection() under way
NoConn ==
    [pc |-> "idle", caller |-> "", prefer_replica |-> FALSE, max_rows |-> None,
     target |-> None, attempt |-> 0, checkouts |-> 0, yields |-> 0,
     last_error |-> None, delays |-> <<>>, held |-> None,
     raised |-> None, result |-> None, ret |-> None]

\* the retry and row-cap settings at their defaults
DefaultSettings ==
    [scale_to_zero_retry_attempts |-> 5,
     scale_to_zero_retry_base_delay |-> 500,
     scale_to_zero_max_delay |-> 10000,
     max_rows |-> 1000]

\* main.py before _apply_tool_governance has run
NoServer == [applied |-> FALSE, wrapped |-> FALSE]

\* the pool and the server are not part of the behaviour
PoolUnused ==
    /\ settings = DefaultSettings
    /\ pool = LakebasePool
    /\ conn = NoConn
    /\ server = NoServer

(***************************************************************************)
(* tools/query.py and main.py: the query tools and the governed call_tool. *)
(* A call returns its response together with the calls made on the way:    *)
(* invoked lists the calls of the original call_tool, executed the calls   *)
(* of the pool.                                                            *)
(***************************************************************************)
QUERY_TOOLS ==
    {"lakebase_execute_query", "lakebase_read_query", "lakebase_explain_query"}

\* the types lakebase_read_query admits
read_allowed == {"select", "explain", "show", "describe"}

\* the handler returned without reaching the pool
Refused(text) ==
    [response |-> [type |-> "text", text |-> text], executed |-> <<>>]

\* rows = await pool.<method>(sql); return the formatted rows
Executed(method, sql, caller_sql) ==
    [response |-> [type |-> "text", text |-> <<"rows">>],
     executed |-> <<[method |-> method, sql |-> sql, caller_sql |-> caller_sql]>>]

\* a handler that always takes the read-only path (for comparison)
lakebase_execute_query_readonly(allowed, sql) ==
    LET r == check_sql(allowed, sql)
    IN IF r.raised # "" THEN Refused(<<"Error", r.raised>>)
       ELSE IF ~r.allowed THEN Refused(<<"Error", r.message>>)
       ELSE Executed("execute_readonly", sql, sql)

\* lakebase_execute_query(params)
lakebase_execute_query(allowed, sql) ==
    LET r == check_sql(allowed, sql)
    IN IF r.raised # "" THEN Refused(<<"Error", r.raised>>)
       ELSE IF ~r.allowed THEN Refused(<<"Error", r.message>>)
       ELSE IF is_write(sql).value
       THEN Executed("execute_query", sql, sql)
       ELSE Executed("execute_readonly", sql, sql)

\* lakebase_read_query(params)
lakebase_read_query(allowed, sql) ==
    LET c == classify(sql)
    IN IF c.raised # "" THEN Refused(<<"Error", c.raised>>)
       ELSE IF c.types = <<>> \/ \E i \in 1..Len(c.types) : c.types[i] \notin read_allowed
       THEN Refused(<<"Error", "Only SELECT, EXPLAIN, SHOW, and DESCRIBE queries">>)
       ELSE Executed("execute_readonly", sql, sql)

\* lakebase_explain_query(params): the options in parentheses are left out
lakebase_explain_query(allowed, sql) ==
    Executed("execute_readonly", <<"EXPLAIN", " ">> \o sql, sql)

\* ToolManager.call_tool(name, arguments): the handler registered for name
original_call_tool(allowed, name, arguments) ==
    LET h == CASE name = "lakebase_execute_query" ->
                    lakebase_execute_query(allowed, arguments)
               [] name = "lakebase_read_query" ->
                    lakebase_read_query(allowed, arguments)
               [] name = "lakebase_explain_query" ->
                    lakebase_explain_query(allowed, arguments)
               [] OTHER -> Refused(<<"handled">>)
    IN h @@ [invoked |-> <<[name |-> name, arguments |-> arguments]>>]

\* a wrapper that does not ask the policy (for comparison)
governed_call_tool_unchecked(allowed, p, name, arguments) ==
    original_call_tool(allowed, name, arguments)

\* governed_call_tool(name, arguments)
governed_call_tool(allowed, p, name, arguments) ==
    LET r == check_tool_access(p, name)
    IN IF ~r.allowed
       THEN [response |-> [type |-> "text", text |-> <<"Error", r.message>>],
             invoked |-> <<>>, executed |-> <<>>]
       ELSE original_call_tool(allowed, name, arguments)

\* mcp._tool_manager.call_tool as _apply_tool_governance left it
call_tool(srv, allowed, p, name, arguments) ==
    IF srv.wrapped
    THEN governed_call_tool(allowed, p, name, arguments)
    ELSE original_call_tool(allowed, name, arguments)

(***************************************************************************)
(* policy.py: load_governance_config.  The value of a list variable is a   *)
(* token sequence: names, "," and " "; each item is one name, possibly     *)
(* surrounded by blanks.  A section of the file is missing, null or a      *)
(* mapping whose absent keys are None.                                     *)
(***************************************************************************)
\* val.split(","): the pieces between the commas
RECURSIVE SplitComma(_)
SplitComma(v) ==
    IF \A i \in 1..Len(v) : v[i] # ","
    THEN <<v>>
    ELSE LET k == CHOOSE i \in 1..Len(v) : v[i] = "," /\ \A j \in 1..(i - 1) : v[j] # ","
         IN <<SubSeq(v, 1, k - 1)>> \o SplitComma(SubSeq(v, k + 1, Len(v)))

\* [item.strip() for item in pieces if item.strip()]
RECURSIVE StripItems(_)
StripItems(pieces) ==
    IF pieces = <<>> THEN <<>>
    ELSE LET item == Strip(pieces[1])
         IN (IF item = <<>> THEN <<>> ELSE <<item[1]>>) \o StripItems(Tail(pieces))

\* _parse_env_list: None for an unset or blank variable, else the items
parse_env_list(val) ==
    LET v == IF val = None THEN <<>> ELSE Strip(val[1])
    IN IF v = <<>> THEN None ELSE Some(StripItems(SplitComma(v)))

\* yaml_data of no file: no section
NoYaml ==
    [sql |-> [kind |-> "missing", profile |-> None, allowed_types |-> None,
              denied_types |-> None],
     tools |-> [kind |-> "missing", profile |-> None,
                allowed_categories |-> None, denied_categories |-> None,
                allowed_tools |-> None, denied_tools |-> None]]

\* _load_yaml_config(path)
load_yaml_config(file) == IF ~file.exists THEN NoYaml ELSE file.data

\* _parse_env_list(VAR) or section.get(key)
EnvList(val, section, key) ==
    LET parsed == parse_env_list(val)
    IN IF TruthyList(parsed) THEN parsed ELSE section[key]

\* os.environ.get(VAR, section.get("profile")) or None
EnvProfile(val, section) ==
    LET v == IF val # None THEN val ELSE section.profile
    IN IF TruthyStr(v) THEN v ELSE None

\* str.lower() of the write flag
LowerFlag(s) == IF s \in {"TRUE", "True", "true"} THEN "true" ELSE s

\* load_governance_config(): the configuration, or the exception raised
load_governance_config(environ, file) ==
    LET yaml_data == IF TruthyStr(environ.LAKEBASE_GOVERNANCE_CONFIG)
                     THEN load_yaml_config(file) ELSE NoYaml
        sql_section == yaml_data.sql
        tool_section == yaml_data.tools
    IN IF sql_section.kind = "null" \/ tool_section.kind = "null"
       THEN [raised |-> "AttributeError", config |-> GovernanceConfig]
       ELSE [raised |-> "",
             config |->
               [sql_profile |-> EnvProfile(environ.LAKEBASE_SQL_PROFILE, sql_section),
                sql_allowed_types |->
                    EnvList(environ.LAKEBASE_SQL_ALLOWED_TYPES, sql_section, "allowed_types"),
                sql_denied_types |->
                    EnvList(environ.LAKEBASE_SQL_DENIED_TYPES, sql_section, "denied_types"),
                tool_profile |-> EnvProfile(environ.LAKEBASE_TOOL_PROFILE, tool_section),
                tool_allowed_categories |->
                    EnvList(environ.LAKEBASE_TOOL_ALLOWED_CATEGORIES, tool_section,
                            "allowed_categories"),
                tool_denied_categories |->
                    EnvList(environ.LAKEBASE_TOOL_DENIED_CATEGORIES, tool_section,
                            "denied_categories"),
                tool_allowed_tools |->
                    EnvList(environ.LAKEBASE_TOOL_ALLOWED, tool_section, "allowed_tools"),
                tool_denied_tools |->
                    EnvList(environ.LAKEBASE_TOOL_DENIED, tool_section, "denied_tools"),
                allow_write |->
                    (IF environ.LAKEBASE_ALLOW_WRITE # None
                     THEN LowerFlag(environ.LAKEBASE_ALLOW_WRITE[1]) ELSE "false") = "true"]]

(***************************************************************************)
(* Inputs                                                                  *)
(***************************************************************************)
MaxStmts == 2

MaxList == 1

\* the lists of at most n names
ListsOver(names, n) == UNION {[1..k -> names] : k \in 0..n}

\* an Optional[list[str]] argument: None or a list of names
OptLists(names) == {None} \cup {Some(l) : l \in ListsOver(names, MaxList)}

\* the statements texts are made of
Statements ==
    { <<>>, <<" ">>, <<"x">>, <<"(">>,
      <<"SELECT">>, <<" ", "SELECT", " ">>, <<"INSERT">>, <<"DROP">>,
      <<"SHOW">>, <<"REVOKE">>, <<"VACUUM">>,
      <<"SELECT", "(">>, <<"DROP", "(">>, <<"SELECT", "'">>,
      <<"WITH", "SELECT">>, <<"WITH", "SELECT", "INSERT">>,
      <<"WITH", "SELECT", "INSERT", "(">> }

\* statements joined by the separator
RECURSIVE JoinStatements(_)
JoinStatements(ss) ==
    IF Len(ss) = 1 THEN ss[1]
    ELSE ss[1] \o <<";">> \o JoinStatements(Tail(ss))

\* the texts of 1 to MaxStmts statements
Texts == {JoinStatements(ss) : ss \in UNION {[1..n -> Statements] : n \in 1..MaxStmts}}

\* the texts the composed policy is asked about
PolicyTexts ==
    { <<"SELECT">>, <<"INSERT">>, <<"DROP">>, <<"x">>,
      <<"SELECT", ";", "INSERT">>, <<"SELECT", "'">>, <<"SET">> }

\* the allowed sets a governor is constructed with
GovernorSets ==
    {PROFILES[p] : p \in DOMAIN PROFILES}
        \cup {PROFILES["admin"] \ {"drop", "truncate"}}

\* the tool names a policy is asked about
\* the tools register_uc_governance_tools registers
UC_GOVERNANCE_TOOLS ==
    {"lakebase_get_uc_permissions", "lakebase_check_my_access",
     "lakebase_governance_summary", "lakebase_list_catalog_grants"}

ToolNames ==
    {"lakebase_read_query", "lakebase_create_branch", "lakebase_delete_branch",
     "lakebase_restart_compute", "custom_tool"} \cup UC_GOVERNANCE_TOOLS

\* the arguments resolve_tool_policy is called with
ResolveArgs ==
    [profile : {None, Some("read_only"), Some("developer"), Some("bogus")},
     allowed_categories : OptLists({"branch_write", "bogus"}),
     denied_categories : OptLists({"branch_write", "bogus"}),
     allowed_tools : OptLists({"lakebase_create_branch", "custom_tool"}),
     denied_tools : OptLists({"lakebase_create_branch", "custom_tool"})]

\* the tool fields of the configurations
ToolSettings ==
    LET d == ToolArgs(GovernanceConfig)
    IN { d,
         [d EXCEPT !.profile = Some("read_only")],
         [d EXCEPT !.profile = Some("bogus")],
         [d EXCEPT !.allowed_categories = Some(<<"branch_write">>)],
         [d EXCEPT !.denied_categories = Some(<<"compute_write">>)],
         [d EXCEPT !.allowed_tools = Some(<<"lakebase_read_query">>)],
         [d EXCEPT !.denied_tools = Some(<<"lakebase_create_branch">>)],
         [d EXCEPT !.profile = Some("developer"),
                   !.denied_categories = Some(<<"compute_write", "migration">>)] }

SqlProfileNames ==
    {None, Some(""), Some("read_only"), Some("analyst"), Some("admin"),
     Some("bogus")}

SqlTypeNames == {"select", "INSERT", "bogus"}

\* the configurations a policy is built from
Configs ==
    {[sql_profile |-> sp, sql_allowed_types |-> sa, sql_denied_types |-> sd,
      tool_profile |-> t.profile,
      tool_allowed_categories |-> t.allowed_categories,
      tool_denied_categories |-> t.denied_categories,
      tool_allowed_tools |-> t.allowed_tools,
      tool_denied_tools |-> t.denied_tools,
      allow_write |-> w] :
        sp \in SqlProfileNames, sa \in OptLists(SqlTypeNames),
        sd \in OptLists(SqlTypeNames), t \in ToolSettings, w \in BOOLEAN}

NoArgs == [resolved |-> FALSE, a |-> ToolArgs(GovernanceConfig)]

NoCall == [op |-> "none", arg |-> <<>>, ret |-> <<>>]

\* the largest attempt budget, and the largest row cap, of the pool settings
MaxAttempts == 3

MaxRows == 2

\* the settings a pool runs under: the defaults, and small budgets, delays
\* (zero, negative, above the cap) and row caps
PoolSettings ==
    {DefaultSettings} \cup
    [scale_to_zero_retry_attempts : 0..MaxAttempts,
     scale_to_zero_retry_base_delay : {-500, 0, 500, 4000},
     scale_to_zero_max_delay : {1000, 10000},
     max_rows : 1..MaxRows]

\* the pools after __init__, after initialize(conninfo) and after
\* initialize(conninfo, replica_conninfo)
Pools ==
    {LakebasePool,
     [LakebasePool EXCEPT !.primary = TRUE],
     [LakebasePool EXCEPT !.primary = TRUE, !.replica = TRUE]}

\* what a checkout or the caller's body may raise
Exceptions ==
    {"OperationalError", "OSError", "ProgrammingError", "CancelledError"}

\* the max_rows argument of execute_query and execute_readonly
MaxRowsArgs == {None, Some(0), Some(1), Some(MaxRows + 1)}

\* what the cursor holds after execute: no result set, or one of n rows
ResultSets == {None} \cup {Some([i \in 1..n |-> i]) : n \in 0..(MaxRows + 1)}

\* the registered tools a client calls
ServerToolNames ==
    QUERY_TOOLS \cup {"lakebase_create_branch", "lakebase_get_uc_permissions"}

\* the configurations the server starts with
ServerConfigs ==
    LET d == GovernanceConfig
    IN {[c EXCEPT !.tool_profile = t.profile,
                  !.tool_allowed_tools = t.allowed_tools,
                  !.tool_denied_tools = t.denied_tools] :
            c \in { d,
                    [d EXCEPT !.sql_profile = Some("admin")],
                    [d EXCEPT !.sql_allowed_types = Some(<<"INSERT">>)],
                    [d EXCEPT !.sql_profile = Some("admin"),
                              !.sql_denied_types = Some(<<"select">>)] },
            t \in {t \in ToolSettings : /\ t.profile # Some("bogus")
                                        /\ t.allowed_categories = None
                                        /\ t.denied_categories = None}}

\* os.environ with no governance variable set
NoEnviron ==
    [LAKEBASE_SQL_PROFILE |-> None, LAKEBASE_SQL_ALLOWED_TYPES |-> None,
     LAKEBASE_SQL_DENIED_TYPES |-> None, LAKEBASE_TOOL_PROFILE |-> None,
     LAKEBASE_TOOL_ALLOWED_CATEGORIES |-> None,
     LAKEBASE_TOOL_DENIED_CATEGORIES |-> None, LAKEBASE_TOOL_ALLOWED |-> None,
     LAKEBASE_TOOL_DENIED |-> None, LAKEBASE_GOVERNANCE_CONFIG |-> None,
     LAKEBASE_ALLOW_WRITE |-> None]

\* the environments load_governance_config runs in
Environs ==
    {[NoEnviron EXCEPT !.LAKEBASE_SQL_PROFILE = a,
                       !.LAKEBASE_SQL_DENIED_TYPES = b,
                       !.LAKEBASE_TOOL_DENIED = c,
                       !.LAKEBASE_GOVERNANCE_CONFIG = p,
                       !.LAKEBASE_ALLOW_WRITE = w] :
        a \in {None, Some(""), Some("admin")},
        b \in {None, Some(<<>>), Some(<<",">>),
               Some(<<" ", "drop", ",", " ", "truncate">>)},
        c \in {None, Some(<<"custom_tool">>)},
        p \in {None, Some("governance.yaml")},
        w \in {None, Some("True")}}

\* the file LAKEBASE_GOVERNANCE_CONFIG names: absent, or holding sections
YamlFiles ==
    {[exists |-> FALSE, data |-> NoYaml]} \cup
    {[exists |-> TRUE, data |-> [sql |-> s, tools |-> t]] :
        s \in {NoYaml.sql, [NoYaml.sql EXCEPT !.kind = "null"]} \cup
              {[NoYaml.sql EXCEPT !.kind = "mapping", !.profile = sp,
                                  !.denied_types = sd] :
                    sp \in {None, Some("analyst")},
                    sd \in {None, Some(<<"drop">>)}},
        t \in {NoYaml.tools,
               [NoYaml.tools EXCEPT !.kind = "mapping",
                                    !.profile = Some("developer"),
                                    !.denied_tools = Some(<<"lakebase_execute_query">>)]}}

(***************************************************************************)
(* The composed policy: built once from a configuration, then consulted    *)
(***************************************************************************)
Init ==
    /\ config \in Configs
    /\ governor = None
    /\ tool_policy = ToolAccessPolicy
    /\ args = NoArgs
    /\ call = NoCall
    /\ PoolUnused

\* build_governance_policy(config) at start-up
Build ==
    /\ governor = None
    /\ LET p == build_governance_policy(config)
       IN /\ governor' = Some(p.sql_allowed)
          /\ tool_policy' = p.tool_policy
    /\ args' = IF has_governance(config)
               THEN [resolved |-> TRUE, a |-> ToolArgs(config)]
               ELSE args
    /\ UNCHANGED <<config, call, settings, pool, conn, server>>

\* policy.check_sql(sql)
CheckSql ==
    /\ governor # None
    /\ call.op = "none"
    /\ \E sql \in PolicyTexts :
          call' = [op |-> "check_sql", arg |-> sql, ret |-> check_sql(governor[1], sql)]
    /\ UNCHANGED <<config, governor, tool_policy, args, settings, pool, conn, server>>

\* policy.check_tool_access(name)
CheckToolAccess ==
    /\ governor # None
    /\ call.op = "none"
    /\ \E name \in ToolNames :
          call' = [op |-> "check_tool_access", arg |-> name,
                   ret |-> check_tool_access(tool_policy, name)]
    /\ UNCHANGED <<config, governor, tool_policy, args, settings, pool, conn, server>>

\* the caller takes the result; the policy is ready for the next call
Return ==
    /\ call.op # "none"
    /\ call' = NoCall
    /\ UNCHANGED <<config, governor, tool_policy, args, settings, pool, conn, server>>

Next == Build \/ CheckSql \/ CheckToolAccess \/ Return

Spec == Init /\ [][Next]_vars

(***************************************************************************)
(* A governor constructed with an allowed set and asked about texts        *)
(***************************************************************************)
InitSql ==
    /\ config = GovernanceConfig
    /\ governor \in {Some(a) : a \in GovernorSets}
    /\ tool_policy = ToolAccessPolicy
    /\ args = NoArgs
    /\ call = NoCall
    /\ PoolUnused

\* governor.check(sql)
Check ==
    /\ call.op = "none"
    /\ \E sql \in Texts :
          call' = [op |-> "check", arg |-> sql, ret |-> check(governor[1], sql)]
    /\ UNCHANGED <<config, governor, tool_policy, args, settings, pool, conn, server>>

\* governor.is_write(sql)
IsWrite ==
    /\ call.op = "none"
    /\ \E sql \in Texts :
          call' = [op |-> "is_write", arg |-> sql, ret |-> is_write(sql)]
    /\ UNCHANGED <<config, governor, tool_policy, args, settings, pool, conn, server>>

NextSql == Check \/ IsWrite \/ Return

SpecSql == InitSql /\ [][NextSql]_vars

(***************************************************************************)
(* A tool policy resolved from arguments and asked about tool names        *)
(***************************************************************************)
InitTool ==
    /\ config = GovernanceConfig
    /\ governor = None
    /\ tool_policy = ToolAccessPolicy
    /\ args \in {[resolved |-> FALSE, a |-> a] : a \in ResolveArgs}
    /\ call = NoCall
    /\ PoolUnused

\* tool_policy = resolve_tool_policy(profile, ...)
Resolve ==
    /\ ~args.resolved
    /\ call.op = "none"
    /\ args' = [args EXCEPT !.resolved = TRUE]
    /\ tool_policy' = resolve_tool_policy(args.a)
    /\ UNCHANGED <<config, governor, call, settings, pool, conn, server>>

\* tool_policy.is_tool_allowed(name)
IsToolAllowed ==
    /\ call.op = "none"
    /\ \E name \in ToolNames :
          call' = [op |-> "is_tool_allowed", arg |-> name,
                   ret |-> is_tool_allowed(tool_policy, name)]
    /\ UNCHANGED <<config, governor, tool_policy, args, settings, pool, conn, server>>

NextTool == Resolve \/ IsToolAllowed \/ Return

SpecTool == InitTool /\ [][NextTool]_vars

(***************************************************************************)
(* One use of LakebasePool.connection, entered directly or through         *)
(* execute_query / execute_readonly                                        *)
(***************************************************************************)
InitPool ==
    /\ config = GovernanceConfig
    /\ governor = None
    /\ tool_policy = ToolAccessPolicy
    /\ args = NoArgs
    /\ call = NoCall
    /\ settings \in PoolSettings
    /\ pool \in Pools
    /\ conn = NoConn
    /\ server = NoServer

\* an exception leaves the scope
Raise(c, type, detail) ==
    [c EXCEPT !.pc = "exited",
              !.raised = Some([type |-> type, detail |-> detail])]

\* the except clause of the retry loop: remember the error, compute the delay
Retry(c, e) ==
    [c EXCEPT !.pc = "sleep",
              !.last_error = Some(e),
              !.delays = Append(@, BackoffDelay(settings, c.attempt))]

\* connection(prefer_replica) up to the retry loop
Enter(caller, prefer_replica, max_rows) ==
    /\ conn.pc = "idle"
    /\ LET target_pool == TargetPool(pool, prefer_replica)
           c == [conn EXCEPT !.caller = caller,
                             !.prefer_replica = prefer_replica,
                             !.max_rows = max_rows,
                             !.target = target_pool]
       IN conn' = IF target_pool = None
                  THEN Raise(c, "RuntimeError", <<"Pool not initialized">>)
                  ELSE [c EXCEPT !.pc = "attempt"]
    /\ UNCHANGED <<config, governor, tool_policy, args, call, settings, pool, server>>

\* async with pool.connection(prefer_replica) as conn, by any other caller
Connection == \E prefer_replica \in BOOLEAN : Enter("connection", prefer_replica, None)

\* execute_query(sql, max_rows=...): async with self.connection()
ExecuteQuery == \E max_rows \in MaxRowsArgs : Enter("execute_query", FALSE, max_rows)

\* execute_readonly(sql, max_rows=...): async with self.connection(prefer_replica=True)
ExecuteReadonly == \E max_rows \in MaxRowsArgs : Enter("execute_readonly", TRUE, max_rows)

\* one iteration of the retry loop: async with target_pool.connection()
Attempt ==
    /\ conn.pc = "attempt"
    /\ conn.attempt < settings.scale_to_zero_retry_attempts
    /\ \E r \in {"ok"} \cup Exceptions :
          LET c == [conn EXCEPT !.checkouts = @ + 1]
          IN IF r = "ok"
             THEN IF conn.yields = 0
                  THEN \* yield conn: the caller's body runs
                       /\ pool' = Checkout(pool, conn.target[1])
                       /\ conn' = [c EXCEPT !.pc = "body", !.yields = 1,
                                            !.held = conn.target]
                  ELSE \* a second yield, reached while the body's exception
                       \* is thrown into the generator: the context manager
                       \* raises RuntimeError; whether it closes the
                       \* generator first depends on the interpreter version
                       \E closed \in BOOLEAN :
                          IF closed
                          THEN /\ pool' = pool
                               /\ conn' = Raise([c EXCEPT !.yields = 2],
                                                "RuntimeError",
                                                <<"generator didn't stop after athrow()">>)
                          ELSE /\ pool' = Checkout(pool, conn.target[1])
                               /\ conn' = Raise([c EXCEPT !.yields = 2,
                                                          !.held = conn.target],
                                                "RuntimeError",
                                                <<"generator didn't stop after athrow()">>)
             ELSE /\ pool' = pool
                  /\ conn' = IF r \in TRANSIENT THEN Retry(c, r)
                             ELSE Raise(c, r, <<>>)
    /\ UNCHANGED <<config, governor, tool_policy, args, call, settings, server>>

\* a wait after which the same attempt is made again (for comparison)
SleepSameAttempt ==
    /\ conn.pc = "sleep"
    /\ \E cancelled \in BOOLEAN :
          conn' = IF cancelled
                  THEN Raise(conn, "CancelledError", <<>>)
                  ELSE [conn EXCEPT !.pc = "attempt"]
    /\ UNCHANGED <<config, governor, tool_policy, args, call, settings, pool, server>>

\* await asyncio.sleep(delay), then the next iteration
Sleep ==
    /\ conn.pc = "sleep"
    /\ \E cancelled \in BOOLEAN :
          conn' = IF cancelled
                  THEN Raise(conn, "CancelledError", <<>>)
                  ELSE [conn EXCEPT !.pc = "attempt", !.attempt = @ + 1]
    /\ UNCHANGED <<config, governor, tool_policy, args, call, settings, pool, server>>

\* the loop is over: raise ConnectionError(... attempts ... last_error)
Exhausted ==
    /\ conn.pc = "attempt"
    /\ conn.attempt >= settings.scale_to_zero_retry_attempts
    /\ conn' = Raise(conn, "ConnectionError",
                     <<settings.scale_to_zero_retry_attempts, conn.last_error>>)
    /\ UNCHANGED <<config, governor, tool_policy, args, call, settings, pool, server>>

\* what the caller's body returns when it completes
BodyRows(c, result) ==
    CASE c.caller = "execute_query" ->
            Some(ExecuteQueryRows(settings, c.max_rows, result))
      [] c.caller = "execute_readonly" ->
            Some(ExecuteReadonlyRows(settings, c.max_rows, result))
      [] OTHER -> None

\* the caller's body runs with the connection and leaves the inner
\* async with, which gives the connection back; an exception of the body
\* is thrown into the generator at its yield, inside the try of the loop
Body ==
    /\ conn.pc = "body"
    /\ pool' = Release(pool, conn.held[1])
    /\ \E r \in {"ok"} \cup Exceptions, result \in ResultSets :
          LET c == [conn EXCEPT !.held = None]
          IN conn' = IF r = "ok"
                     THEN [c EXCEPT !.pc = "exited", !.result = result,
                                    !.ret = BodyRows(c, result)]
                     ELSE IF r \in TRANSIENT THEN Retry(c, r)
                     ELSE Raise(c, r, <<>>)
    /\ UNCHANGED <<config, governor, tool_policy, args, call, settings, server>>

\* the suspended generator is finalized by the garbage collector: aclose()
\* leaves the inner async with
Finalize ==
    /\ conn.pc = "exited"
    /\ conn.held # None
    /\ pool' = Release(pool, conn.held[1])
    /\ conn' = [conn EXCEPT !.held = None]
    /\ UNCHANGED <<config, governor, tool_policy, args, call, settings, server>>

NextPool ==
    \/ Connection
    \/ ExecuteQuery
    \/ ExecuteReadonly
    \/ Attempt
    \/ Sleep
    \/ Exhausted
    \/ Body
    \/ Finalize

SpecPool == InitPool /\ [][NextPool]_vars

\* every checkout attempt, sleep and body comes to an end
SpecPoolFair == SpecPool /\ WF_vars(NextPool)

(***************************************************************************)
(* The server: the policy is built, call_tool is wrapped, tools are called *)
(***************************************************************************)
InitServer ==
    /\ config \in ServerConfigs
    /\ governor = None
    /\ tool_policy = ToolAccessPolicy
    /\ args = NoArgs
    /\ call = NoCall
    /\ PoolUnused

\* _apply_tool_governance(mcp)
ApplyToolGovernance ==
    /\ governor # None
    /\ ~server.applied
    /\ server' = [applied |-> TRUE,
                  wrapped |-> ~(tool_policy.allowed_tools = {}
                                /\ tool_policy.denied_tools = {})]
    /\ UNCHANGED <<config, governor, tool_policy, args, call, settings, pool, conn>>

\* a client calls a tool: mcp._tool_manager.call_tool(name, arguments)
CallTool ==
    /\ server.applied
    /\ call.op = "none"
    /\ \E name \in ServerToolNames, sql \in PolicyTexts :
          call' = [op |-> "call_tool",
                   arg |-> [name |-> name, arguments |-> sql],
                   ret |-> call_tool(server, governor[1], tool_policy, name, sql)]
    /\ UNCHANGED <<config, governor, tool_policy, args, settings, pool, conn, server>>

NextServer == Build \/ ApplyToolGovernance \/ CallTool \/ Return

SpecServer == InitServer /\ [][NextServer]_vars

(***************************************************************************)
(* The configuration loaded from the environment and the file              *)
(***************************************************************************)
InitLoad ==
    /\ config = GovernanceConfig
    /\ governor = None
    /\ tool_policy = ToolAccessPolicy
    /\ args = NoArgs
    /\ call = NoCall
    /\ PoolUnused

\* config = load_governance_config()
LoadGovernanceConfig ==
    /\ call.op = "none"
    /\ \E environ \in Environs, file \in YamlFiles :
          LET r == load_governance_config(environ, file)
          IN /\ call' = [op |-> "load_governance_config",
                         arg |-> [environ |-> environ, file |-> file],
                         ret |-> r]
             /\ config' = IF r.raised = "" THEN r.config ELSE config
    /\ UNCHANGED <<governor, tool_policy, args, settings, pool, conn, server>>

NextLoad == LoadGovernanceConfig \/ Return

SpecLoad == InitLoad /\ [][NextLoad]_vars

(***************************************************************************)
(* Properties of SQLGovernor (SpecSql)                                     *)
(***************************************************************************)
\* the types the statements of a text have when each is classified alone
ConstituentTypes(sql) ==
    UNION {Range(classify(st).types) : st \in Range(SplitStatements(sql))}

\* C1: check denies a multi-statement text whenever one of its statements, at
\* any position, has a type outside the allowed set, on the AST path and on
\* the regex fallback path alike.
C1_MultiStatementDenied ==
    (/\ call.op = "check"
     /\ call.ret.raised = ""
     /\ Len(SplitStatements(call.arg)) > 1
     /\ ConstituentTypes(call.arg) \ governor[1] # {})
        => ~call.ret.allowed

\* alphabetical order of two type names
AlphaBefore(a, b) ==
    \E i, j \in 1..Len(ALPHABETICAL) :
        i < j /\ ALPHABETICAL[i] = a /\ ALPHABETICAL[j] = b

\* C2: when check denies because of a disallowed type, statement_type is the
\* first type in statement order outside the allowed set, parsed_types is the
\* full classified list, and the message names that type and lists exactly the
\* allowed set in alphabetical order.
C2_DenialNamesFirstViolation ==
    (/\ call.op = "check"
     /\ call.ret.raised = ""
     /\ Range(classify(call.arg).types) \ governor[1] # {})
        => LET r == call.ret
               types == classify(call.arg).types
           IN /\ ~r.allowed
              /\ r.parsed_types = types
              /\ r.statement_type # None
              /\ \E i \in 1..Len(types) :
                    /\ types[i] = r.statement_type[1]
                    /\ types[i] \notin governor[1]
                    /\ \A j \in 1..(i - 1) : types[j] \in governor[1]
              /\ r.error_message # None
              /\ r.error_message[1].type = r.statement_type
              /\ Range(r.error_message[1].permitted) = governor[1]
              /\ \A i, j \in 1..Len(r.error_message[1].permitted) :
                    i < j => AlphaBefore(r.error_message[1].permitted[i],
                                         r.error_message[1].permitted[j])

C2_Witness ==
    /\ call.op = "check"
    /\ governor = Some(PROFILES["read_only"])
    /\ call.arg = <<"INSERT", ";", "DROP">>
    /\ call.ret.statement_type = Some("insert")
    /\ call.ret.parsed_types = <<"insert", "drop">>
    /\ call.ret.error_message[1].permitted = <<"describe", "explain", "select", "show">>

\* C3: check denies, with the could-not-determine message and no violating
\* type, every text that classify returns the empty list for, under every
\* allowed set, admin included.
C3_EmptyClassificationDenied ==
    (/\ call.op = "check"
     /\ classify(call.arg).raised = ""
     /\ classify(call.arg).types = <<>>)
        => /\ call.ret.raised = ""
           /\ ~call.ret.allowed
           /\ call.ret.statement_type = None
           /\ call.ret.parsed_types = <<>>
           /\ call.ret.error_message = Some(CouldNotDetermine)

C3_Witness ==
    /\ call.op = "check"
    /\ governor = Some(SQLStatementType)
    /\ call.arg \in {<<>>, <<" ">>, <<";">>, <<"x">>, <<"(">>, <<"VACUUM">>}
    /\ ~call.ret.allowed
    /\ call.ret.error_message = Some(CouldNotDetermine)

(***************************************************************************)
(* Properties of the tool access policy (SpecTool)                         *)
(***************************************************************************)
\* C4: is_tool_allowed(name) is true exactly when name is not in the denied
\* set and the allowed set is empty or holds name: deny wins for a name in
\* both sets, two empty sets admit every name, and an unknown name is denied
\* whenever the allowed set is not empty.
C4_IsToolAllowed ==
    call.op = "is_tool_allowed"
        => (call.ret <=>
                /\ call.arg \notin tool_policy.denied_tools
                /\ \/ tool_policy.allowed_tools = {}
                   \/ call.arg \in tool_policy.allowed_tools)

C4_Witness ==
    /\ call.op = "is_tool_allowed"
    /\ call.arg \in tool_policy.allowed_tools
    /\ call.arg \in tool_policy.denied_tools
    /\ call.ret = FALSE

\* the names an optional list argument holds
Given(o) == IF o = None THEN {} ELSE Range(o[1])

\* every tool of the registry's categories among cats
RegistryTools(cats) ==
    {t \in UNION {Range(TOOL_CATEGORIES[c]) : c \in DOMAIN TOOL_CATEGORIES} :
        \E c \in cats \cap DOMAIN TOOL_CATEGORIES : t \in Range(TOOL_CATEGORIES[c])}

\* the categories a profile name stands for, none if it is not a profile
ProfileCategories(o) ==
    IF o # None /\ o[1] \in DOMAIN TOOL_PROFILES
    THEN Range(TOOL_PROFILES[o[1]])
    ELSE {}

\* C5: resolve_tool_policy returns allowed = tools of the known profile's
\* categories + tools of the known allowed_categories + allowed_tools, and
\* denied = tools of the known denied_categories + denied_tools; unknown
\* category names contribute nothing.
C5_ResolveToolPolicy ==
    args.resolved
        => /\ tool_policy.allowed_tools =
                RegistryTools(ProfileCategories(args.a.profile))
                    \cup RegistryTools(Given(args.a.allowed_categories))
                    \cup Given(args.a.allowed_tools)
           /\ tool_policy.denied_tools =
                RegistryTools(Given(args.a.denied_categories))
                    \cup Given(args.a.denied_tools)

C5_Witness ==
    /\ args.resolved
    /\ args.a.profile = Some("read_only")
    /\ args.a.allowed_categories = Some(<<"branch_write">>)
    /\ args.a.denied_categories = Some(<<"bogus">>)
    /\ args.a.allowed_tools = Some(<<"custom_tool">>)
    /\ "lakebase_delete_branch" \in tool_policy.allowed_tools
    /\ "lakebase_read_query" \in tool_policy.allowed_tools
    /\ tool_policy.denied_tools = {}

\* the category of the registry that holds a tool
CategoryOf(tool) == {c \in DOMAIN TOOL_CATEGORIES : tool \in Range(TOOL_CATEGORIES[c])}

\* C10: individual tool names override everything: a tool named in
\* allowed_tools is admitted even when denied_categories holds its category,
\* and a tool named in denied_tools is denied even when the profile or
\* allowed_categories holds it.
C10_ToolNamesOverrideEverything ==
    (args.resolved /\ call.op = "is_tool_allowed")
        => /\ call.arg \in Given(args.a.allowed_tools) => call.ret = TRUE
           /\ call.arg \in Given(args.a.denied_tools) => call.ret = FALSE

(***************************************************************************)
(* Properties of the composed policy (Spec)                                *)
(***************************************************************************)
ProfileFields == {"sql_profile", "tool_profile"}

ListFields ==
    {"sql_allowed_types", "sql_denied_types", "tool_allowed_categories",
     "tool_denied_categories", "tool_allowed_tools", "tool_denied_tools"}

\* a configuration field holds a value: not None, not "", not []
FieldSet(c, f) ==
    /\ c[f] # None
    /\ f \in ProfileFields => c[f][1] # ""
    /\ f \in ListFields => c[f][1] # <<>>

\* one of the eight governance fields is set
AnyFieldSet(c) == \E f \in ProfileFields \cup ListFields : FieldSet(c, f)

\* C6: in legacy mode (none of the eight governance fields set) the SQL
\* allowed set is the read_only profile when the write flag is false and all
\* 17 statement types when it is true, and every tool name is admitted.
C6_LegacyMode ==
    (governor # None /\ ~AnyFieldSet(config))
        => /\ ~config.allow_write
                => governor[1] = {"select", "show", "describe", "explain"}
           /\ config.allow_write
                => governor[1] = SQLStatementType /\ Cardinality(governor[1]) = 17
           /\ call.op = "check_tool_access" => call.ret.allowed

C6_Witness ==
    /\ ~AnyFieldSet(config)
    /\ config.allow_write
    /\ governor = Some(SQLStatementType)
    /\ call.op = "check_tool_access"
    /\ call.arg = "custom_tool"
    /\ call.ret.allowed

\* the statement types a list of names recognisably names, whatever their case
Recognised(o) ==
    {t \in SQLStatementType : \E n \in Given(o) : Lower(n) = t}

\* C7: in new governance mode the SQL allowed set is ((the named profile's
\* set if the name is known, else empty) + the recognised additive types)
\* - the recognised subtractive types, unknown names ignored; if that set is
\* empty the allowed set is the read_only profile.
C7_NewModeSqlAllowed ==
    (governor # None /\ AnyFieldSet(config))
        => LET base == IF config.sql_profile # None
                          /\ config.sql_profile[1] \in DOMAIN PROFILES
                       THEN PROFILES[config.sql_profile[1]]
                       ELSE {}
               resolved == (base \cup Recognised(config.sql_allowed_types))
                               \ Recognised(config.sql_denied_types)
           IN governor[1] =
                IF resolved = {} THEN PROFILES["read_only"] ELSE resolved

C7_Witness ==
    /\ governor # None
    /\ config.sql_profile = Some("analyst")
    /\ config.sql_allowed_types = Some(<<"select">>)
    /\ config.sql_denied_types = Some(<<"select">>)
    /\ governor[1] = {"show", "describe", "explain", "insert", "set"}

C9_WriteFlagIgnored ==
    (governor # None /\ AnyFieldSet(config))
        => LET twin == [config EXCEPT !.allow_write = ~config.allow_write]
               other == build_governance_policy(twin)
           IN /\ other.sql_allowed = governor[1]
              /\ other.tool_policy = tool_policy

C9_Witness ==
    /\ governor = Some(PROFILES["read_only"])
    /\ config.allow_write
    /\ ~FieldSet(config, "sql_profile")
    /\ ~FieldSet(config, "sql_allowed_types")
    /\ ~FieldSet(config, "sql_denied_types")
    /\ config.tool_denied_tools = Some(<<"lakebase_create_branch">>)
    /\ tool_policy.denied_tools = {"lakebase_create_branch"}

(***************************************************************************)
(* Properties of the static registries                                     *)
(***************************************************************************)
\* C11: the SQL profile sets satisfy read_only <= analyst <= developer <=
\* admin with admin equal to all 17 statement types, and the tool profile
\* category sets satisfy read_only = analyst <= developer <= admin with admin
\* equal to every category of the registry; so whatever policy has been built
\* allows no statement type and no registered tool that admin does not.
C11_ProfileMonotonicity ==
    /\ governor # None => governor[1] \subseteq PROFILES["admin"]
    /\ tool_policy.allowed_tools
            \cap UNION {Range(TOOL_CATEGORIES[c]) : c \in DOMAIN TOOL_CATEGORIES}
                \subseteq ProfileTools(Some("admin"))
    /\ PROFILES["read_only"] \subseteq PROFILES["analyst"]
    /\ PROFILES["analyst"] \subseteq PROFILES["developer"]
    /\ PROFILES["developer"] \subseteq PROFILES["admin"]
    /\ PROFILES["admin"] = SQLStatementType
    /\ Cardinality(PROFILES["admin"]) = 17
    /\ Range(TOOL_PROFILES["read_only"]) = Range(TOOL_PROFILES["analyst"])
    /\ Range(TOOL_PROFILES["analyst"]) \subseteq Range(TOOL_PROFILES["developer"])
    /\ Range(TOOL_PROFILES["developer"]) \subseteq Range(TOOL_PROFILES["admin"])
    /\ Range(TOOL_PROFILES["admin"]) = DOMAIN TOOL_CATEGORIES

\* a policy built from the analyst SQL profile and the read_only tool profile
C11_Witness ==
    /\ config.sql_profile = Some("analyst")
    /\ config.tool_profile = Some("read_only")
    /\ governor = Some(PROFILES["analyst"])
    /\ tool_policy.allowed_tools = ProfileTools(Some("read_only"))
    /\ PROFILES["read_only"] \subseteq governor[1]
    /\ tool_policy.allowed_tools \subseteq ProfileTools(Some("admin"))

\* C12: the registry holds a uc_governance category, so that under the
\* read_only tool profile (and therefore under developer and admin) the four
\* Unity Catalog governance tools are admitted by check_tool_access.
C12_UcGovernanceAdmitted ==
    (/\ call.op = "check_tool_access"
     /\ call.arg \in UC_GOVERNANCE_TOOLS
     /\ config.tool_profile \in {Some("read_only"), Some("developer"), Some("admin")}
     /\ ~TruthyList(config.tool_allowed_categories)
     /\ ~TruthyList(config.tool_denied_categories)
     /\ ~TruthyList(config.tool_allowed_tools)
     /\ ~TruthyList(config.tool_denied_tools))
        => /\ call.ret.allowed
           /\ \E c \in DOMAIN TOOL_CATEGORIES : call.arg \in Range(TOOL_CATEGORIES[c])

(***************************************************************************)
(* Properties of LakebasePool (SpecPool)                                   *)
(***************************************************************************)
\* C13: the delay slept after the failed attempt number k (counted from 0) is
\* min(base_delay * 2^k, max_delay); for a non-negative base_delay the delays
\* of one acquisition are non-decreasing, and every delay is at most max_delay.
C13_BackoffDelays ==
    LET base == settings.scale_to_zero_retry_base_delay
        max == settings.scale_to_zero_max_delay
        d == conn.delays
    IN /\ \A i \in 1..Len(d) :
             /\ d[i] = IF base * (2 ^ (i - 1)) <= max
                       THEN base * (2 ^ (i - 1)) ELSE max
             /\ d[i] <= max
       /\ base >= 0 => \A i, j \in 1..Len(d) : i <= j => d[i] <= d[j]

\* three failed attempts whose delays double and then meet the cap
C13_Witness ==
    /\ conn.delays = <<4000, 8000, 10000>>
    /\ conn.attempt = 2
    /\ conn.pc = "sleep"

\* C14: connection() raises the exhaustion error exactly when all N
\* configured checkout attempts fail with a transient error: N attempts were
\* made, the ConnectionError carries the error of the last of them, and once
\* an attempt has succeeded and the connection has been yielded no
\* exhaustion error is raised.
C14_ExhaustionOnlyWhenAllAttemptsFail ==
    LET N == settings.scale_to_zero_retry_attempts
    IN (conn.pc = "exited" /\ conn.raised # None)
          => /\ conn.raised[1].type = "ConnectionError"
                    => /\ conn.checkouts = N
                       /\ conn.raised[1].detail = <<N, conn.last_error>>
                       /\ N > 0 => /\ conn.last_error # None
                                   /\ conn.last_error[1] \in TRANSIENT
                       /\ conn.yields = 0
             /\ conn.yields > 0 => conn.raised[1].type # "ConnectionError"

\* C15: connection(prefer_replica) takes its connection from the replica
\* pool exactly when prefer_replica is true and a replica pool is present, and
\* from the primary pool in every other case; execute_query always uses the
\* primary and execute_readonly always asks for the replica-preferring
\* connection.
C15_ReplicaRouting ==
    conn.pc # "idle"
        => /\ conn.target = Some("replica") <=> (conn.prefer_replica /\ pool.replica)
           /\ (conn.target # Some("replica") /\ pool.primary)
                    => conn.target = Some("primary")
           /\ conn.held # None => conn.held = conn.target
           /\ conn.target # Some("replica") => pool.out["replica"] = 0
           /\ conn.target # Some("primary") => pool.out["primary"] = 0
           /\ conn.caller = "execute_query"
                    => ~conn.prefer_replica /\ conn.target # Some("replica")
           /\ conn.caller = "execute_readonly" => conn.prefer_replica

\* execute_readonly falls back to the primary when no replica is configured
C15_Witness ==
    /\ conn.caller = "execute_readonly"
    /\ conn.prefer_replica
    /\ ~pool.replica
    /\ conn.pc = "body"
    /\ conn.held = Some("primary")
    /\ pool.out["primary"] = 1

\* C16: scoped acquisition releases on every exit path: whether the caller's
\* body completes, raises or is cancelled, once the scope has exited every
\* connection checked out for it has been returned to its pool.
C16_ReleasedOnEveryExit ==
    conn.pc = "exited"
        => /\ conn.held = None
           /\ pool.out["primary"] = 0
           /\ pool.out["replica"] = 0

\* C19: whenever execute_query or execute_readonly returns fewer rows than
\* the statement's result set holds because of the row cap, the returned
\* value carries a truncation notice (something that is not a row of the
\* result set).
C19_TruncationNotice ==
    (/\ conn.caller \in {"execute_query", "execute_readonly"}
     /\ conn.pc = "exited"
     /\ conn.ret # None
     /\ conn.result # None
     /\ Len(conn.ret[1]) < Len(conn.result[1]))
        => \E i \in 1..Len(conn.ret[1]) : conn.ret[1][i] \notin Range(conn.result[1])

(***************************************************************************)
(* Properties of the server (SpecServer)                                   *)
(***************************************************************************)
\* C17: for each of the query tools lakebase_execute_query,
\* lakebase_read_query and lakebase_explain_query, the pool executes the
\* caller's SQL only after check_sql of the active policy has allowed that
\* SQL; SQL that check_sql denies never reaches the pool.
C17_CheckSqlBeforePool ==
    (call.op = "call_tool" /\ call.arg.name \in QUERY_TOOLS)
        => \A i \in 1..Len(call.ret.executed) :
              LET r == check_sql(governor[1], call.ret.executed[i].caller_sql)
              IN r.raised = "" /\ r.allowed

\* C18: a tool invocation first passes check_tool_access: for every name the
\* composed policy denies, the call returns the denial message naming the tool
\* and the handler is never invoked; for an admitted name the handler is
\* invoked exactly once with the original arguments.
C18_ToolAccessBeforeHandler ==
    call.op = "call_tool"
        => LET name == call.arg.name
               denied == \/ name \in tool_policy.denied_tools
                         \/ /\ tool_policy.allowed_tools # {}
                            /\ name \notin tool_policy.allowed_tools
           IN IF denied
              THEN /\ call.ret.response.type = "text"
                   /\ call.ret.response.text = <<"Error", Some(ToolDenied(name))>>
                   /\ call.ret.response.text[2][1].tool = name
                   /\ call.ret.invoked = <<>>
                   /\ call.ret.executed = <<>>
              ELSE call.ret.invoked =
                        <<[name |-> name, arguments |-> call.arg.arguments]>>

\* a denied call under an active wrapper
C18_Witness ==
    /\ call.op = "call_tool"
    /\ server.wrapped
    /\ call.arg.name = "lakebase_create_branch"
    /\ call.arg.name \in tool_policy.denied_tools
    /\ call.ret.invoked = <<>>
    /\ call.ret.response.text[1] = "Error"

(***************************************************************************)
(* Outcomes as values (Spec)                                               *)
(***************************************************************************)
\* C20: classification and policy outcomes are returned as values, never
\* thrown: for every SQL text, whatever the parser does with it, classify
\* returns a list and check_sql returns an (allowed, message) pair without
\* raising; check_tool_access returns a pair for every tool name.
C20_OutcomesAreValues ==
    /\ call.op = "check_sql"
            => /\ classify(call.arg).raised = ""
               /\ call.ret.raised = ""
               /\ call.ret.allowed \in BOOLEAN
    /\ call.op = "check_tool_access"
            => /\ call.ret.raised = ""
               /\ call.ret.allowed \in BOOLEAN

(***************************************************************************)
(* Properties of classification (SpecSql)                                  *)
(***************************************************************************)
\* a single WITH statement whose CTE body holds SELECT and whose outer
\* clause is INSERT, UPDATE or DELETE
MutatingCte(w) ==
    /\ Len(w) >= 3
    /\ w[1] = "WITH"
    /\ w[2] = "SELECT"
    /\ w[3] \in {"INSERT", "UPDATE", "DELETE"}
    /\ \A i \in 1..Len(w) : w[i] # ";"

\* C21: a CTE wrapping an INSERT, UPDATE or DELETE classifies as the mutating
\* type, not as select; in particular the ordered regex fallback, given text
\* that starts with WITH, holds SELECT in the CTE body and has
\* INSERT/UPDATE/DELETE as its outer clause, returns insert/update/delete.
C21_CteMutatingType ==
    (/\ call.op = "check"
     /\ call.ret.raised = ""
     /\ MutatingCte(Strip(call.arg)))
        => LET outer == Lower(Strip(call.arg)[3])
           IN /\ call.ret.parsed_types = <<outer>>
              /\ regex_fallback(call.arg) = Some(outer)

(***************************************************************************)
(* Properties of configuration loading (SpecLoad)                          *)
(***************************************************************************)
\* the value the file gives a key: None when no path is configured, the file
\* is missing, or the section or the key is missing
FileValue(environ, file, section, key) ==
    IF /\ TruthyStr(environ.LAKEBASE_GOVERNANCE_CONFIG)
       /\ file.exists
       /\ file.data[section].kind = "mapping"
    THEN file.data[section][key]
    ELSE None

\* a profile field resolved as stated: the variable if set, else the file
ProfileAsStated(val, field, filevalue) ==
    IF val # None
    THEN field = (IF val[1] = "" THEN None ELSE val)
    ELSE field = filevalue

\* a list field resolved as stated: the items of the variable if set (an
\* empty value leaves the field empty), else the file
ListAsStated(val, field, filevalue) ==
    IF val # None
    THEN IF TruthyList(parse_env_list(val))
         THEN field = parse_env_list(val)
         ELSE ~TruthyList(field)
    ELSE field = filevalue

\* C22: load_governance_config resolves each of the eight governance fields
\* independently: the environment value if the field's variable is set,
\* otherwise the file's value when the file exists and has the key, otherwise
\* unset; a missing file or missing keys never make loading fail.
C22_EnvOverridesFile ==
    call.op = "load_governance_config"
        => LET e == call.arg.environ
               f == call.arg.file
               c == call.ret.config
           IN (f.data.sql.kind # "null" /\ f.data.tools.kind # "null")
                 => /\ call.ret.raised = ""
                    /\ config = c
                    /\ ProfileAsStated(e.LAKEBASE_SQL_PROFILE, c.sql_profile,
                                       FileValue(e, f, "sql", "profile"))
                    /\ ListAsStated(e.LAKEBASE_SQL_ALLOWED_TYPES, c.sql_allowed_types,
                                    FileValue(e, f, "sql", "allowed_types"))
                    /\ ListAsStated(e.LAKEBASE_SQL_DENIED_TYPES, c.sql_denied_types,
                                    FileValue(e, f, "sql", "denied_types"))
                    /\ ProfileAsStated(e.LAKEBASE_TOOL_PROFILE, c.tool_profile,
                                       FileValue(e, f, "tools", "profile"))
                    /\ ListAsStated(e.LAKEBASE_TOOL_ALLOWED_CATEGORIES,
                                    c.tool_allowed_categories,
                                    FileValue(e, f, "tools", "allowed_categories"))
                    /\ ListAsStated(e.LAKEBASE_TOOL_DENIED_CATEGORIES,
                                    c.tool_denied_categories,
                                    FileValue(e, f, "tools", "denied_categories"))
                    /\ ListAsStated(e.LAKEBASE_TOOL_ALLOWED, c.tool_allowed_tools,
                                    FileValue(e, f, "tools", "allowed_tools"))
                    /\ ListAsStated(e.LAKEBASE_TOOL_DENIED, c.tool_denied_tools,
                                    FileValue(e, f, "tools", "denied_tools"))

(***************************************************************************)
(* Further properties of the composed policy (Spec)                        *)
(***************************************************************************)
\* C28: when the tool profile is the only governance field set and it names
\* none of the four known profiles, the policy is built in new governance
\* mode, the resolved tool policy has empty allowed and denied sets, every
\* tool name is admitted, and the SQL allowed set is read_only whether or not
\* the write flag is set.
C28_UnknownToolProfilePermissive ==
    (/\ governor # None
     /\ TruthyStr(config.tool_profile)
     /\ config.tool_profile[1] \notin {"read_only", "analyst", "developer", "admin"}
     /\ ~has_governance_sql_only(config)
     /\ ~TruthyList(config.tool_allowed_categories)
     /\ ~TruthyList(config.tool_denied_categories)
     /\ ~TruthyList(config.tool_allowed_tools)
     /\ ~TruthyList(config.tool_denied_tools))
        => /\ args.resolved
           /\ args.a.profile = config.tool_profile
           /\ tool_policy = [allowed_tools |-> {}, denied_tools |-> {}]
           /\ governor = Some({"select", "show", "describe", "explain"})
           /\ call.op = "check_tool_access"
                => call.ret = [raised |-> "", allowed |-> TRUE, message |-> None]

\* profile "bogus" with the write flag set: a write tool is admitted
C28_Witness ==
    /\ config.tool_profile = Some("bogus")
    /\ config.allow_write
    /\ ~has_governance_sql_only(config)
    /\ governor = Some(PROFILES["read_only"])
    /\ call.op = "check_tool_access"
    /\ call.arg = "lakebase_create_branch"
    /\ call.ret.allowed

(***************************************************************************)
(* Further properties of the SQL governor (SpecSql)                        *)
(***************************************************************************)
\* what the node-kind table or, failing that, the patterns make of one
\* statement taken by itself
UnitType(stmt) ==
    LET w == Words(stmt)
    IN IF w = <<>> THEN None
       ELSE IF StatementFails(w) THEN regex_fallback(stmt)
       ELSE LET t == classify_expression(ParseStatement(w))
            IN IF t # None THEN t ELSE regex_fallback(stmt)

RECURSIVE UnitTypes(_)
UnitTypes(stmts) ==
    IF stmts = <<>> THEN <<>>
    ELSE UnitType(Head(stmts)) \o UnitTypes(Tail(stmts))

\* C27: classify drops a statement that neither the node-kind table nor the
\* regex fallback recognises and keeps the types of the others in statement
\* order; check allows a batch of at least one classifiable statement, all of
\* allowed types, whatever unclassifiable statements it also holds, and
\* denies as indeterminate only a batch with no classifiable statement.
C27_UnclassifiableDropped ==
    (call.op = "check" /\ call.ret.raised = "")
        => LET types == UnitTypes(SplitStatements(call.arg))
           IN /\ classify(call.arg).types = types
              /\ (/\ types # <<>>
                  /\ \A i \in 1..Len(types) : types[i] \in governor[1])
                    => call.ret.allowed
              /\ call.ret.error_message = Some(CouldNotDetermine) => types = <<>>

(***************************************************************************)
(* Further properties of the pool (SpecPool)                               *)
(***************************************************************************)
Cancelled == Some([type |-> "CancelledError", detail |-> <<>>])

\* C23: when the task is cancelled while connection() sleeps between
\* attempts or waits for a checkout, the CancelledError leaves the scope in
\* that very step, no checkout attempt or sleep follows it, it is never taken
\* for a retryable failure or turned into the exhaustion error, and no
\* connection stays checked out.
C23_CancellationPropagates ==
    [][/\ (conn.pc = "sleep" /\ conn'.pc # "attempt")
            => /\ conn'.pc = "exited"
               /\ conn'.raised = Cancelled
               /\ conn'.checkouts = conn.checkouts
               /\ conn'.delays = conn.delays
       /\ (conn.pc = "attempt" /\ conn'.raised = Cancelled)
            => /\ conn'.pc = "exited"
               /\ conn'.delays = conn.delays
               /\ conn'.last_error = conn.last_error
       /\ conn'.raised = Cancelled
            => /\ conn'.held = None
               /\ pool'.out["primary"] = 0
               /\ pool'.out["replica"] = 0
       /\ conn'.last_error # Some("CancelledError")
       /\ conn.raised = Cancelled => conn' = conn]_vars

\* cancelled during the sleep after a failed checkout, with attempts left
C23_Witness ==
    /\ conn.raised = Cancelled
    /\ conn.yields = 0
    /\ conn.checkouts >= 1
    /\ Len(conn.delays) = conn.checkouts
    /\ conn.checkouts < settings.scale_to_zero_retry_attempts

\* C25: retry is triggered by checkout failure only: once connection() has
\* handed a connection to the caller, the caller's body ends the scope; an
\* exception of the body, transient classes included, leaves the scope
\* unchanged, and no backoff sleep and no further checkout happens for the
\* scope after the connection was handed out.
C25_BodyErrorsNotRetried ==
    [][/\ conn.pc = "body"
            => /\ conn'.pc = "exited"
               /\ conn'.raised # None
                    => /\ conn'.raised[1].type \in Exceptions
                       /\ conn'.raised[1].detail = <<>>
       /\ conn.yields >= 1
            => /\ conn'.checkouts = conn.checkouts
               /\ conn'.delays = conn.delays
               /\ conn'.yields = conn.yields]_vars

\* C26: a retry wait occurs only between two attempts: when all N >= 1
\* checkout attempts of an acquisition fail transiently and the exhaustion
\* error is raised, exactly N-1 backoff sleeps have happened; with the default
\* settings they are 0.5 s, 1 s, 2 s and 4 s.
C26_SleepsOnlyBetweenAttempts ==
    LET N == settings.scale_to_zero_retry_attempts
    IN (/\ conn.pc = "exited"
        /\ conn.raised # None
        /\ conn.raised[1].type = "ConnectionError"
        /\ conn.yields = 0
        /\ N >= 1)
          => /\ conn.checkouts = N
             /\ Len(conn.delays) = N - 1
             /\ settings = DefaultSettings
                    => conn.delays = <<500, 1000, 2000, 4000>>

\* C29: a checkout failure that is not an OperationalError,
\* ConnectionException, ConnectionRefusedError or OSError leaves connection()
\* in the step it happens in, as it is: it is never recorded as a retryable
\* error, no delay is computed for it, nothing follows it, and the aggregated
\* ConnectionError is raised only when the attempts are used up; a pool that
\* was not initialized raises RuntimeError before any attempt or sleep.
C29_NonTransientPropagates ==
    [][LET N == settings.scale_to_zero_retry_attempts
           classes == {"OperationalError", "ConnectionException",
                       "ConnectionRefusedError", "OSError"}
       IN /\ conn'.last_error # None => conn'.last_error[1] \in classes
          /\ (/\ conn.pc = "attempt"
              /\ conn'.pc = "exited"
              /\ conn'.raised[1].type \notin {"ConnectionError", "RuntimeError"})
                => /\ conn'.raised[1].type \in Exceptions \ classes
                   /\ conn'.raised[1].detail = <<>>
                   /\ conn'.checkouts = conn.checkouts + 1
                   /\ conn'.delays = conn.delays
                   /\ conn'.last_error = conn.last_error
          /\ conn.pc = "exited"
                => /\ conn'.raised = conn.raised
                   /\ conn'.checkouts = conn.checkouts
                   /\ conn'.delays = conn.delays
          /\ (conn'.raised # None /\ conn'.raised[1].type = "ConnectionError")
                => /\ conn.pc \in {"attempt", "exited"}
                   /\ conn.attempt >= N
          /\ (conn.pc = "idle" /\ conn'.pc # "idle" /\ ~pool.primary)
                => /\ conn'.pc = "exited"
                   /\ conn'.raised = Some([type |-> "RuntimeError",
                                           detail |-> <<"Pool not initialized">>])
                   /\ conn'.checkouts = 0
                   /\ conn'.delays = <<>>]_vars

\* the second checkout fails with a ProgrammingError after one retry wait
C29_Witness ==
    /\ conn.pc = "exited"
    /\ conn.raised = Some([type |-> "ProgrammingError", detail |-> <<>>])
    /\ conn.yields = 0
    /\ conn.checkouts = 2
    /\ conn.delays = <<500>>
    /\ conn.last_error = Some("OperationalError")
    /\ settings.scale_to_zero_retry_attempts > 2

\* C30: every acquisition through connection() terminates when each checkout
\* attempt and each sleep terminates: with attempt budget N >= 0 at most N
\* checkout attempts and N sleeps are made, and an acquisition under way
\* always comes to yield a connection or to raise an error.
C30_AcquisitionTerminates ==
    /\ [](/\ conn.checkouts <= settings.scale_to_zero_retry_attempts
          /\ Len(conn.delays) <= settings.scale_to_zero_retry_attempts)
    /\ (conn.pc \in {"attempt", "sleep"}) ~> (conn.pc \in {"body", "exited"})

\* the connection is yielded by the last attempt of a budget of three or more
C30_Witness ==
    /\ settings.scale_to_zero_retry_attempts >= 3
    /\ conn.checkouts = settings.scale_to_zero_retry_attempts
    /\ conn.pc = "body"
    /\ conn.yields = 1

(***************************************************************************)
(* Further properties of the server (SpecServer)                           *)
(***************************************************************************)
\* C24: for SQL that check_sql allows, lakebase_execute_query runs it once,
\* through execute_query (primary, read-write) exactly when is_write is true,
\* that is when some classified type lies outside {select, show, describe,
\* explain, set}, and through execute_readonly otherwise; a batch with a
\* write-classified statement never goes through execute_readonly.
C24_WriteRouting ==
    (/\ call.op = "call_tool"
     /\ call.arg.name = "lakebase_execute_query"
     /\ call.ret.invoked # <<>>)
        => LET sql == call.arg.arguments
               r == check_sql(governor[1], sql)
               types == classify(sql).types
               write == \E i \in 1..Len(types) :
                           types[i] \notin {"select", "show", "describe",
                                            "explain", "set"}
           IN (r.raised = "" /\ r.allowed)
                 => /\ is_write(sql).value = write
                    /\ Len(call.ret.executed) = 1
                    /\ call.ret.executed[1].sql = sql
                    /\ call.ret.executed[1].method =
                          IF write THEN "execute_query" ELSE "execute_readonly"

\* a batch of a read and a write goes to the primary
C24_Witness ==
    /\ call.op = "call_tool"
    /\ call.arg = [name |-> "lakebase_execute_query",
                   arguments |-> <<"SELECT", ";", "INSERT">>]
    /\ Len(call.ret.executed) = 1
    /\ call.ret.executed[1].method = "execute_query"

====
